---------------------------- MODULE Spec2Model ----------------------------
(***************************************************************************)
(* Model of ProtocoloAtestado: the form that appends a row to the         *)
(* spreadsheet ledger MALA<SIGLA>.xlsx and renders a DOCX/PDF into         *)
(* "Requerimentos/".  Two revisions of the program are modelled side by    *)
(* side, src/formulario.py and src/mci_form2pdf.py; the variable rev says  *)
(* which one a behaviour runs.                                             *)
(*                                                                         *)
(* Text is a sequence of one-character strings, so that strip, casefold,   *)
(* the digit filters, the "%02d" format and the file-name pattern are      *)
(* computed, not assumed.                                                  *)
(***************************************************************************)
EXTENDS Integers, Sequences, FiniteSets, TLC

(***************************************************************************)
(* Bounds of the model.                                                    *)
(***************************************************************************)
\* A behaviour of the model holds at most this many clicks on the buttons
\* "Salvar na planilha e gerar PDF" and "Salvar como padrão".
MaxPassos == 2

(***************************************************************************)
(* Characters and text.                                                    *)
(***************************************************************************)
Digits == {"0", "1", "2", "3", "4", "5", "6", "7", "8", "9"}
DigitSeq == <<"0", "1", "2", "3", "4", "5", "6", "7", "8", "9">>
UpperSeq == <<"A", "B", "C", "D", "E", "F", "G", "H", "I", "J", "K", "L", "M",
              "N", "O", "P", "Q", "R", "S", "T", "U", "V", "W", "X", "Y", "Z">>
LowerSeq == <<"a", "b", "c", "d", "e", "f", "g", "h", "i", "j", "k", "l", "m",
              "n", "o", "p", "q", "r", "s", "t", "u", "v", "w", "x", "y", "z">>
Whitespace == {" "}

Range(s) == {s[i] : i \in DOMAIN s}
UpperSet == Range(UpperSeq)
LowerSet == Range(LowerSeq)
WordSet == UpperSet \cup LowerSet \cup Digits \cup {"_"}
SiglaSet == UpperSet \cup Digits

\* str.casefold / str.upper on one character (ASCII letters)
FoldMap == [c \in UpperSet |-> LowerSeq[CHOOSE i \in DOMAIN UpperSeq : UpperSeq[i] = c]]
UpperMap == [c \in LowerSet |-> UpperSeq[CHOOSE i \in DOMAIN LowerSeq : LowerSeq[i] = c]]
fold(c) == IF c \in UpperSet THEN FoldMap[c] ELSE c
upper(c) == IF c \in LowerSet THEN UpperMap[c] ELSE c
casefold(s) == [i \in DOMAIN s |-> fold(s[i])]
str_upper(s) == [i \in DOMAIN s |-> upper(s[i])]

\* str.strip: drop leading and trailing whitespace
RECURSIVE lstrip(_)
lstrip(s) == IF s # <<>> /\ Head(s) \in Whitespace THEN lstrip(Tail(s)) ELSE s
RECURSIVE rstrip(_)
rstrip(s) == IF s # <<>> /\ s[Len(s)] \in Whitespace
             THEN rstrip(SubSeq(s, 1, Len(s) - 1)) ELSE s
strip(s) == rstrip(lstrip(s))

IsDigit(c) == c \in Digits
IsAlnumUpper(c) == c \in SiglaSet
\* \w of the re module, on the characters of the model
IsWordChar(c) == c \in WordSet

\* str.isdigit on a text
DigitMap == [c \in Digits |-> (CHOOSE i \in DOMAIN DigitSeq : DigitSeq[i] = c) - 1]
DigitVal(c) == DigitMap[c]
RECURSIVE int_of(_)
int_of(s) == IF s = <<>> THEN 0
             ELSE 10 * int_of(SubSeq(s, 1, Len(s) - 1)) + DigitVal(s[Len(s)])
\* str(n) for n >= 0
RECURSIVE str_of(_)
str_of(n) == IF n < 10 THEN <<DigitSeq[n + 1]>>
             ELSE str_of(n \div 10) \o <<DigitSeq[(n % 10) + 1]>>
\* A variant of the format that keeps the last two digits
fmt02d_cortado(n) == <<DigitSeq[((n \div 10) % 10) + 1], DigitSeq[(n % 10) + 1]>>

\* f"{n:02d}" for n >= 0: at least two digits, zero-padded, never cut
fmt02d(n) == IF Len(str_of(n)) < 2 THEN <<"0">> \o str_of(n) ELSE str_of(n)


\* str.isdigit: non-empty and digits only
isdigit(s) == s # <<>> /\ \A i \in DOMAIN s : IsDigit(s[i])

(***************************************************************************)
(* Program constants (module level of both revisions).                     *)
(***************************************************************************)
DEFAULT_ANO == <<"2", "0", "2", "5">>
\* os.environ.get("MCI_SIGLA", "MCI"), the variable being unset
ENV_SIGLA == <<"M", "C", "I">>
DEFAULTS_VALID == [cpf_len |-> 11, id_len |-> 10, oferta_len |-> 10]
\* the slice [:11] of format_cpf
CPF_SLICE == 11

COLUNAS_PADRAO == <<"N req.", "N chamado", "NOME", "ID", "CPF", "CURSO", "TURMA",
                    "Código da oferta", "Data", "retorno (Previsão)">>
\* (label, required) of the form, in order
campos == << <<"NOME", TRUE>>, <<"ID", TRUE>>, <<"CPF", TRUE>>, <<"CURSO", TRUE>>,
             <<"TURMA", TRUE>>, <<"Código da oferta", TRUE>>, <<"N chamado", FALSE>>,
             <<"Data", TRUE>>, <<"retorno (Previsão)", TRUE>> >>
Labels == {campos[i][1] : i \in DOMAIN campos}
Required == {campos[i][1] : i \in {j \in DOMAIN campos : campos[j][2]}}

Revisions == {"formulario", "mci"}

(***************************************************************************)
(* Sigla, configuration file, ledger name.                                 *)
(***************************************************************************)
\* _sanitize_sigla
sanitize_sigla(s) ==
    LET u == SelectSeq(str_upper(strip(s)), IsAlnumUpper)
    IN  IF u = <<>> THEN <<"M", "C", "I">> ELSE u

\* The configuration file: isfile, the JSON object as a function of its keys,
\* and whether open(CONFIG_FILE, "w") succeeds
NoConfigFile == [isfile |-> FALSE, data |-> <<>>, gravavel |-> TRUE]

\* carregar_config of formulario.py
carregar_config_formulario(cf) ==
    LET d == cf.data
        has(k) == cf.isfile /\ k \in DOMAIN d
    IN  [sigla |-> IF has("sigla") THEN sanitize_sigla(d["sigla"])
                   ELSE sanitize_sigla(ENV_SIGLA),
         ano |-> IF has("ano") /\ isdigit(d["ano"]) THEN d["ano"] ELSE DEFAULT_ANO,
         valid |-> IF has("valid") THEN d["valid"] ELSE DEFAULTS_VALID,
         last_req |-> IF has("last_req") THEN d["last_req"] ELSE 0]

\* carregar_config of mci_form2pdf.py: no valid, no last_req
carregar_config_mci(cf) ==
    LET d == cf.data
        has(k) == cf.isfile /\ k \in DOMAIN d
    IN  [sigla |-> IF has("sigla") THEN sanitize_sigla(d["sigla"])
                   ELSE sanitize_sigla(ENV_SIGLA),
         ano |-> IF has("ano") /\ isdigit(d["ano"]) THEN d["ano"] ELSE DEFAULT_ANO,
         valid |-> DEFAULTS_VALID,
         last_req |-> 0]

carregar_config(r, cf) ==
    IF r = "formulario" THEN carregar_config_formulario(cf) ELSE carregar_config_mci(cf)

\* salvar_config of formulario.py; hasLast is "last_req is not None".  The
\* write is inside try/except: a failure is swallowed and leaves the file as
\* it was.
salvar_config_formulario(cf, sigla, ano, valid, hasLast, last_req) ==
    LET base == ("sigla" :> sanitize_sigla(sigla)) @@
                ("ano" :> (IF ano = <<>> THEN DEFAULT_ANO ELSE ano)) @@
                ("valid" :> valid)
        data == IF hasLast THEN base @@ ("last_req" :> last_req) ELSE base
    IN  IF cf.gravavel THEN [cf EXCEPT !.isfile = TRUE, !.data = data] ELSE cf

\* salvar_config of mci_form2pdf.py
salvar_config_mci(cf, sigla, ano) ==
    LET data == ("sigla" :> sanitize_sigla(sigla)) @@
                ("ano" :> (IF ano = <<>> THEN DEFAULT_ANO ELSE ano))
    IN  IF cf.gravavel THEN [cf EXCEPT !.isfile = TRUE, !.data = data] ELSE cf

\* nome_planilha, MCI_XLSX unset: "MALA" + sigla + ".xlsx"
nome_planilha(sigla) ==
    <<"M", "A", "L", "A">> \o sanitize_sigla(sigla) \o <<".", "x", "l", "s", "x">>

(***************************************************************************)
(* Cells, rows, tables (pandas DataFrame) and the ledger file.             *)
(*                                                                         *)
(* A cell is a number, a text or NaN (an empty cell).  A table is its set  *)
(* of columns and its rows in order; a row maps every column to a cell.    *)
(* The order of the columns is not modelled: nothing in the program reads  *)
(* it.                                                                     *)
(***************************************************************************)
Num(n) == [k |-> "num", n |-> n, s |-> <<>>]
Str(s) == [k |-> "str", n |-> 0, s |-> s]
NaN == [k |-> "nan", n |-> 0, s |-> <<>>]

\* Series.astype(str) on one cell
astype_str(c) == CASE c.k = "str" -> c.s
                   [] c.k = "num" -> str_of(c.n)
                   [] OTHER -> <<"n", "a", "n">>

\* pd.to_numeric(..., errors="coerce") on one cell
to_numeric(c) == CASE c.k = "num" -> c
                   [] c.k = "str" /\ isdigit(strip(c.s)) -> Num(int_of(strip(c.s)))
                   [] OTHER -> NaN

\* pd.DataFrame(columns=COLUNAS_PADRAO)
ColunasSet == Range(COLUNAS_PADRAO)
EmptyTable == [columns |-> ColunasSet, rows |-> <<>>]
\* DataFrame.empty: no rows or no columns
df_empty(df) == df.rows = <<>> \/ df.columns = {}

NoFile == [isfile |-> FALSE, columns |-> {}, rows |-> <<>>]

\* What a cell becomes through to_excel and read_excel: a number and a
\* non-empty text come back as they are; None, NaN and the empty text come
\* back as NaN (an empty cell)
excel_cell(c) == IF c.k = "str" /\ c.s = <<>> THEN NaN ELSE c

\* carregar_planilha (the column names of the model carry no whitespace, so
\* the strip of the names leaves them alone)
carregar_planilha(fs, caminho) ==
    IF fs[caminho].isfile
    THEN [columns |-> fs[caminho].columns, rows |-> fs[caminho].rows]
    ELSE EmptyTable

\* the loop of salvar_planilha: every missing standard column is added, empty
com_colunas_padrao(df) ==
    [columns |-> df.columns \cup ColunasSet,
     rows |-> [i \in DOMAIN df.rows |->
                 [c \in df.columns \cup ColunasSet |->
                    IF c \in df.columns THEN df.rows[i][c] ELSE NaN]]]

\* salvar_planilha: the file written by to_excel
salvar_planilha(df) ==
    LET t == com_colunas_padrao(df)
    IN  [isfile |-> TRUE, columns |-> t.columns,
         rows |-> [i \in DOMAIN t.rows |->
                     [c \in t.columns |-> excel_cell(t.rows[i][c])]]]

\* pd.concat([df_local, pd.DataFrame([dados], columns=COLUNAS_PADRAO)]):
\* the union of the columns, NaN where a side has none
concat_linha(df, dados) ==
    LET cols == df.columns \cup ColunasSet
        old == [i \in DOMAIN df.rows |->
                  [c \in cols |-> IF c \in df.columns THEN df.rows[i][c] ELSE NaN]]
        nova == [c \in cols |-> IF c \in DOMAIN dados THEN dados[c] ELSE NaN]
    IN  [columns |-> cols, rows |-> Append(old, nova)]

\* nums.dropna() of proximo_nreq: the numeric values of the 'N req.' column
nreq_nums(df) ==
    IF "N req." \in df.columns /\ ~df_empty(df)
    THEN {to_numeric(df.rows[i]["N req."]).n :
            i \in {j \in DOMAIN df.rows : to_numeric(df.rows[j]["N req."]).k = "num"}}
    ELSE {}

Max(S) == CHOOSE m \in S : \A x \in S : x <= m

\* proximo_nreq of formulario.py
proximo_nreq_formulario(df, last_req_cfg) ==
    IF nreq_nums(df) # {} THEN Max(nreq_nums(df)) + 1
    ELSE IF last_req_cfg # 0 THEN last_req_cfg + 1 ELSE 1

(***************************************************************************)
(* The output directory "Requerimentos": isdir, and the names in it.       *)
(***************************************************************************)
NoDir == [isdir |-> FALSE, nomes |-> {}]
EXT_DOCX == <<".", "d", "o", "c", "x">>
EXT_PDF == <<".", "p", "d", "f">>

\* padrao.match(nome) of max_protocolo_na_pasta:
\*   ^(\d{2}) <sigla> <ano> \b   with re.IGNORECASE
padrao_match(nome, sigla, ano) ==
    LET k == 2 + Len(sigla) + Len(ano)
        prevW == k >= 1 /\ k <= Len(nome) /\ IsWordChar(nome[k])
        nextW == k + 1 <= Len(nome) /\ IsWordChar(nome[k + 1])
    IN  /\ Len(nome) >= k
        /\ IsDigit(nome[1]) /\ IsDigit(nome[2])
        /\ casefold(SubSeq(nome, 3, 2 + Len(sigla))) = casefold(sigla)
        /\ casefold(SubSeq(nome, 3 + Len(sigla), k)) = casefold(ano)
        /\ prevW # nextW

\* A variant of max_protocolo_na_pasta that keeps the smallest prefix
max_protocolo_menor(pasta, sigla, ano) ==
    IF ~pasta.isdir THEN 0
    ELSE LET sg == sanitize_sigla(sigla)
             ms == {int_of(SubSeq(nome, 1, 2)) :
                      nome \in {x \in pasta.nomes : padrao_match(x, sg, ano)}}
         IN  IF ms = {} THEN 0 ELSE CHOOSE m \in ms : \A x \in ms : m <= x

\* max_protocolo_na_pasta
max_protocolo_na_pasta(pasta, sigla, ano) ==
    IF ~pasta.isdir THEN 0
    ELSE LET sg == sanitize_sigla(sigla)
             ms == {int_of(SubSeq(nome, 1, 2)) :
                      nome \in {x \in pasta.nomes : padrao_match(x, sg, ano)}}
         IN  Max(ms \cup {0})

\* proximo_nreq of mci_form2pdf.py
proximo_nreq_mci(df, pasta, sigla, ano) ==
    LET max_sheet == IF nreq_nums(df) # {} THEN Max(nreq_nums(df)) ELSE 0
        max_folder == max_protocolo_na_pasta(pasta, sigla, ano)
    IN  (IF max_sheet >= max_folder THEN max_sheet ELSE max_folder) + 1

(***************************************************************************)
(* existe_registro.  The result is None ("none"), a number ("some") or an  *)
(* exception leaving the function ("raise": the table has rows and no NOME *)
(* column, so df.get("NOME", "") is the text "" and has no astype).        *)
(***************************************************************************)
None == [kind |-> "none", n |-> 0]
Some(n) == [kind |-> "some", n |-> n]
Raise == [kind |-> "raise", n |-> 0]

\* the boolean mask `filtros` on one row
filtros(df, dados, i) ==
    /\ casefold(strip(astype_str(df.rows[i]["NOME"]))) = casefold(strip(dados["NOME"]))
    /\ \A col \in {"ID", "CPF", "Data"} :
          col \in df.columns =>
             strip(astype_str(df.rows[i][col])) = strip(dados[col])

\* A variant of existe_registro whose mask compares "N chamado" as well
existe_registro_com_chamado(df, dados) ==
    IF df_empty(df) THEN None
    ELSE IF "NOME" \notin df.columns THEN Raise
    ELSE LET existentes ==
                 {i \in DOMAIN df.rows :
                    /\ filtros(df, dados, i)
                    /\ strip(astype_str(df.rows[i]["N chamado"])) = strip(dados["N chamado"])}
             primeiro == CHOOSE i \in existentes : \A j \in existentes : i <= j
         IN  IF existentes = {} THEN None
             ELSE IF "N req." \notin df.columns THEN None
             ELSE IF to_numeric(df.rows[primeiro]["N req."]).k = "num"
                  THEN Some(to_numeric(df.rows[primeiro]["N req."]).n)
                  ELSE None

\* A variant of existe_registro that goes on to the first matching row whose
\* number can be read
existe_registro_primeira_legivel(df, dados) ==
    IF df_empty(df) THEN None
    ELSE IF "NOME" \notin df.columns THEN Raise
    ELSE LET existentes == {i \in DOMAIN df.rows : filtros(df, dados, i)}
             legiveis == {i \in existentes :
                            /\ "N req." \in df.columns
                            /\ to_numeric(df.rows[i]["N req."]).k = "num"}
             primeiro == CHOOSE i \in legiveis : \A j \in legiveis : i <= j
         IN  IF legiveis = {} THEN None
             ELSE Some(to_numeric(df.rows[primeiro]["N req."]).n)

existe_registro(df, dados) ==
    IF df_empty(df) THEN None
    ELSE IF "NOME" \notin df.columns THEN Raise
    ELSE LET existentes == {i \in DOMAIN df.rows : filtros(df, dados, i)}
             primeiro == CHOOSE i \in existentes : \A j \in existentes : i <= j
         IN  IF existentes = {} THEN None
             ELSE IF "N req." \notin df.columns THEN None
             ELSE IF to_numeric(df.rows[primeiro]["N req."]).k = "num"
                  THEN Some(to_numeric(df.rows[primeiro]["N req."]).n)
                  ELSE None

(***************************************************************************)
(* Field helpers and the rendering.                                        *)
(***************************************************************************)
\* sanitize_num on a text
sanitize_num(s) == SelectSeq(s, IsDigit)
\* get_str on a text
get_str(s) == strip(s)

\* format_cpf
format_cpf(digs) ==
    LET all == sanitize_num(digs)
        d == SubSeq(all, 1, IF Len(all) < CPF_SLICE THEN Len(all) ELSE CPF_SLICE)
    IN  IF Len(d) = 11
        THEN SubSeq(d, 1, 3) \o <<".">> \o SubSeq(d, 4, 6) \o <<".">> \o
             SubSeq(d, 7, 9) \o <<"-">> \o SubSeq(d, 10, 11)
        ELSE d

\* mapa['protocolo'] of montar_mapa
protocolo(protocolo_num) == fmt02d(protocolo_num)

\* `base` of gerar_documento
base_nome(linha, protocolo_num, sigla, ano) ==
    protocolo(protocolo_num) \o sanitize_sigla(sigla) \o ano \o <<" ">> \o
    get_str(linha["NOME"])

\* One run of an external converter (docx2pdf, Word through comtypes or
\* win32com): whether it leaves the PDF on disk, and whether it raises.
\* It converts; it returns without having written the PDF; it raises.
CONV_OK == [pdf |-> TRUE, raises |-> FALSE]
CONV_NOOP == [pdf |-> FALSE, raises |-> FALSE]
CONV_RAISE == [pdf |-> FALSE, raises |-> TRUE]
ConvOutcomes == {CONV_OK, CONV_NOOP, CONV_RAISE}

\* tentar_converter_pdf of formulario.py: docx2pdf, then comtypes, then
\* win32com; conv[i] is what the i-th converter does if it is reached.
\* The result: the value returned, and the names then in the directory.
tentar_converter_pdf(nomes, out_pdf, conv) ==
    LET n1 == IF conv[1].pdf THEN nomes \cup {out_pdf} ELSE nomes
        n2 == IF conv[2].pdf THEN n1 \cup {out_pdf} ELSE n1
        n3 == IF conv[3].pdf THEN n2 \cup {out_pdf} ELSE n2
    IN  IF ~conv[1].raises THEN [ret |-> out_pdf \in n1, nomes |-> n1]
        ELSE IF ~conv[2].raises THEN [ret |-> out_pdf \in n2, nomes |-> n2]
        ELSE IF ~conv[3].raises THEN [ret |-> out_pdf \in n3, nomes |-> n3]
        ELSE [ret |-> FALSE, nomes |-> n3]

\* The fresh-render tail of gerar_documento, after doc.save(out_docx): the
\* path returned and the names in the directory.
converter_novo_formulario(nomes, out_docx, out_pdf, conv) ==
    LET t == tentar_converter_pdf(nomes, out_pdf, conv)
    IN  [ret |-> IF t.ret THEN out_pdf ELSE out_docx, nomes |-> t.nomes]

converter_novo_mci(nomes, out_docx, out_pdf, conv) ==
    [ret |-> IF conv[1].raises THEN out_docx ELSE out_pdf,
     nomes |-> IF conv[1].pdf THEN nomes \cup {out_pdf} ELSE nomes]

\* A variant of gerar_documento that does not look for the files of an
\* earlier call and renders every time
gerar_documento_sempre_renderiza(r, pasta, linha, protocolo_num, sigla, ano, modeloOK, conv) ==
    LET base == base_nome(linha, protocolo_num, sigla, ano)
        out_docx == base \o EXT_DOCX
        out_pdf == base \o EXT_PDF
        dir == [isdir |-> TRUE, nomes |-> pasta.nomes]
        novo == IF r = "formulario"
                THEN converter_novo_formulario(pasta.nomes \cup {out_docx},
                                               out_docx, out_pdf, conv)
                ELSE converter_novo_mci(pasta.nomes \cup {out_docx},
                                        out_docx, out_pdf, conv)
    IN  IF ~modeloOK
        THEN [raised |-> TRUE, ret |-> <<>>, pasta |-> dir,
              loaded |-> TRUE, wrote |-> {}]
        ELSE [raised |-> FALSE, ret |-> novo.ret,
              pasta |-> [dir EXCEPT !.nomes = novo.nomes],
              loaded |-> TRUE, wrote |-> {out_docx}]

\* gerar_documento.  modeloOK = FALSE: Document(modelo), substituir_texto or
\* doc.save raises, nothing having been written.  The result: raised, the
\* path returned, the directory afterwards, whether the template was loaded
\* and the names written by the program itself (not by a converter).
gerar_documento(r, pasta, linha, protocolo_num, sigla, ano, modeloOK, conv) ==
    LET base == base_nome(linha, protocolo_num, sigla, ano)
        out_docx == base \o EXT_DOCX
        out_pdf == base \o EXT_PDF
        dir == [isdir |-> TRUE, nomes |-> pasta.nomes]
        novo == IF r = "formulario"
                THEN converter_novo_formulario(pasta.nomes \cup {out_docx},
                                               out_docx, out_pdf, conv)
                ELSE converter_novo_mci(pasta.nomes \cup {out_docx},
                                        out_docx, out_pdf, conv)
    IN  IF out_pdf \in pasta.nomes
        THEN [raised |-> FALSE, ret |-> out_pdf, pasta |-> dir,
              loaded |-> FALSE, wrote |-> {}]
        ELSE IF out_docx \in pasta.nomes
        THEN [raised |-> FALSE,
              ret |-> IF conv[1].raises THEN out_docx ELSE out_pdf,
              pasta |-> [dir EXCEPT !.nomes =
                           IF conv[1].pdf THEN @ \cup {out_pdf} ELSE @],
              loaded |-> FALSE, wrote |-> {}]
        ELSE IF ~modeloOK
        THEN [raised |-> TRUE, ret |-> <<>>, pasta |-> dir,
              loaded |-> TRUE, wrote |-> {}]
        ELSE [raised |-> FALSE, ret |-> novo.ret,
              pasta |-> [dir EXCEPT !.nomes = novo.nomes],
              loaded |-> TRUE, wrote |-> {out_docx}]

(***************************************************************************)
(* What the user types, and what the environment does.                     *)
(***************************************************************************)
T_ANA == <<"A", "n", "a", " ", "S", "i", "l", "v", "a">>
T_ANA2 == <<" ", "a", "n", "a", " ", "S", "I", "L", "V", "A", " ">>
T_BIA == <<"B", "i", "a">>
T_ZED == <<"Z", "e", "d">>
T_ID == <<"1", "2", "3", "4", "5", "6", "7", "8", "9", "0">>
T_CPF == <<"1", "2", "3", "4", "5", "6", "7", "8", "9", "0", "9">>
T_CPF_PONTOS == <<"1", "2", "3", ".", "4", "5", "6", ".", "7", "8", "9", "-", "0", "9">>
T_CPF_8 == <<"1", "2", "3", "4", "5", "6", "7", "8">>
T_DATA == <<"0", "5", "/", "1", "1", "/", "2", "0", "2", "5">>

FormAna == [l \in Labels |->
              CASE l = "NOME" -> T_ANA
                [] l = "ID" -> T_ID
                [] l = "CPF" -> T_CPF
                [] l = "CURSO" -> <<"A", "D", "S">>
                [] l = "TURMA" -> <<"T", "1">>
                [] l = "Código da oferta" -> T_ID
                [] l = "N chamado" -> <<>>
                [] OTHER -> T_DATA]

\* The forms a user submits: Ana, her name in another case and with blanks
\* around; Bia, her CPF typed with its punctuation; a blank name; and, into
\* formulario.py, which checks the lengths, a CPF of 8 digits.
FormCpf8 == [FormAna EXCEPT !["NOME"] = T_ZED, !["CPF"] = T_CPF_8]
Forms ==
    [r \in Revisions |->
       {[FormAna EXCEPT !["NOME"] = T_ANA2],
        [FormAna EXCEPT !["NOME"] = T_BIA, !["CPF"] = T_CPF_PONTOS,
                        !["N chamado"] = <<"4", "2">>],
        [FormAna EXCEPT !["NOME"] = <<" ", " ">>]}
       \cup (IF r = "formulario" THEN {FormCpf8} ELSE {})]

\* What the user types into the SIGLA and the year entries
EntradasCfg == {[sigla |-> <<"i", "o", "-", "t", " ">>, ano |-> <<" ", "2", "0", "2", "5">>]}

Planilhas == {nome_planilha(e.sigla) : e \in EntradasCfg} \cup {nome_planilha(ENV_SIGLA)}

\* The converters reached in one call of gerar_documento: mci_form2pdf.py
\* runs docx2pdf alone; formulario.py runs up to three, the next one only
\* when the one before raised (the two that drive Word raise together).
SO_LEVANTAM == <<CONV_RAISE, CONV_RAISE, CONV_RAISE>>
ConvChains ==
    [r \in Revisions |->
       IF r = "mci"
       THEN {<<o, CONV_RAISE, CONV_RAISE>> : o \in ConvOutcomes}
       ELSE {c \in [1..3 -> ConvOutcomes] :
               /\ \A i \in 1..2 : ~c[i].raises => c[i + 1] = CONV_RAISE
               /\ c[2].raises => c[3].raises}]

\* What a call of gerar_documento meets: the template cannot be rendered
\* (no converter is then reached), or it can and the converters do as in conv
RenderEnvs ==
    [r \in Revisions |->
       {[salvaOK |-> TRUE, modeloOK |-> FALSE, conv |-> SO_LEVANTAM]} \cup
       {[salvaOK |-> TRUE, modeloOK |-> TRUE, conv |-> c] : c \in ConvChains[r]}]

\* What the new-record branch of a submit meets: the ledger cannot be written
\* (nothing else is then reached), or it can and the rendering goes as above
SubmitEnvs ==
    [r \in Revisions |->
       {[salvaOK |-> FALSE, modeloOK |-> FALSE, conv |-> SO_LEVANTAM]} \cup RenderEnvs[r]]

\* A ledger row as the program writes it
linha_de(dados, nreq) ==
    [c \in ColunasSet |->
       IF c = "N req." THEN Num(nreq) ELSE Str(dados[c])]

\* A ledger file left by an earlier run or edited by hand
RowAnaSemNumero == [linha_de(FormAna, 0) EXCEPT !["N req."] = NaN,
                                                !["N chamado"] = NaN]
RowAna99 == [linha_de(FormAna, 99) EXCEPT !["N chamado"] = NaN]
FileOf(rows) == [isfile |-> TRUE, columns |-> ColunasSet, rows |-> rows]

NOME_ANA_99 == <<"9", "9", "M", "C", "I", "2", "0", "2", "5", " ">> \o T_ANA \o EXT_PDF
NOME_ZED_07 == <<"0", "7", "M", "C", "I", "2", "0", "2", "5", " ">> \o T_ZED \o EXT_PDF
NOME_ZED_100 == <<"1", "0", "0", "M", "C", "I", "2", "0", "2", "5", " ">> \o T_ZED \o EXT_PDF

\* A configuration file that cannot be written, left by an earlier run
ConfigSoLeitura ==
    [isfile |-> TRUE,
     data |-> ("sigla" :> <<"m", "c", "i">>) @@ ("ano" :> DEFAULT_ANO) @@
              ("valid" :> DEFAULTS_VALID) @@ ("last_req" :> 5),
     gravavel |-> FALSE]

\* The disk the program is started on: the ledger MALAMCI.xlsx, the output
\* directory and the configuration file.  A first run; a ledger with a row a
\* person added without a number; a ledger at number 99 with its document;
\* documents of earlier runs (numbers 7 and 100) whose ledger is gone; a
\* first run beside a read-only configuration file.
Ambientes ==
    { [planilha |-> NoFile, pasta |-> NoDir, config |-> NoConfigFile],
      [planilha |-> FileOf(<<RowAnaSemNumero>>), pasta |-> NoDir,
       config |-> NoConfigFile],
      [planilha |-> FileOf(<<RowAna99>>),
       pasta |-> [isdir |-> TRUE, nomes |-> {NOME_ANA_99}],
       config |-> NoConfigFile],
      [planilha |-> NoFile,
       pasta |-> [isdir |-> TRUE, nomes |-> {NOME_ZED_07, NOME_ZED_100}],
       config |-> NoConfigFile],
      [planilha |-> NoFile, pasta |-> NoDir, config |-> ConfigSoLeitura] }

(***************************************************************************)
(* State.                                                                  *)
(***************************************************************************)
VARIABLES
    rev,            \* the revision running: "formulario" or "mci"
    SIGLA,          \* iniciar_form: cfg["sigla"] read at startup
    ANO_PROTOCOLO,  \* iniciar_form: cfg["ano"] read at startup
    valid,          \* iniciar_form: the field lengths read at startup
    df,             \* iniciar_form: the ledger in memory (nonlocal df)
    var_sigla,      \* iniciar_form: the SIGLA entry
    var_ano,        \* iniciar_form: the year entry
    arquivos,       \* the ledger files on disk, by name
    configFile,     \* config_form.json on disk
    pasta,          \* the output directory on disk
    last,           \* history: what the last operation was and did
    pendente,       \* history: the submit that saved its row and rendered nothing
    passos          \* the number of submits and of "Salvar como padrão" so far

vars == <<rev, SIGLA, ANO_PROTOCOLO, valid, df, var_sigla, var_ano, arquivos,
          configFile, pasta, last, pendente, passos>>

\* The key of the duplicate check, as the specification words it: NOME
\* trimmed and case-folded; ID, CPF and Data trimmed
chave(dados) == <<casefold(strip(dados["NOME"])), strip(dados["ID"]),
                  strip(dados["CPF"]), strip(dados["Data"])>>
\* The key of a stored row
chave_linha(row) == <<casefold(strip(astype_str(row["NOME"]))),
                      strip(astype_str(row["ID"])), strip(astype_str(row["CPF"])),
                      strip(astype_str(row["Data"]))>>
\* the rows of a table that have the key of dados
casadas(t, dados) == {i \in DOMAIN t.rows : chave_linha(t.rows[i]) = chave(dados)}

\* A field of the form is empty once trimmed or, in formulario.py, CPF, ID or
\* Código da oferta has not the configured number of digits
EntradaInvalida(r, v, form) ==
    \/ \E l \in Required : strip(form[l]) = <<>>
    \/ /\ r = "formulario"
       /\ \/ Len(sanitize_num(form["CPF"])) # v.cpf_len
          \/ Len(sanitize_num(form["ID"])) # v.id_len
          \/ Len(sanitize_num(form["Código da oferta"])) # v.oferta_len

\* a cell of the 'N req.' column that reads as a number (not blank, not NaN,
\* not a text that is no numeral)
NumeroLegivel(c) == c.k = "num" \/ (c.k = "str" /\ isdigit(strip(c.s)))
Primeira(S) == CHOOSE i \in S : \A j \in S : i <= j

NoLast == [op |-> "init", caminho |-> "-", invalida |-> FALSE, casou |-> FALSE,
           ilegivel |-> FALSE, outra_legivel |-> FALSE,
           nreq_casada |-> FALSE, nreq |-> 0, salvou |-> FALSE, inicial |-> FALSE,
           repete |-> FALSE, nreq_pendente |-> 0,
           chamou |-> FALSE, docx_antes |-> FALSE, pdf_antes |-> FALSE,
           pdf_depois |-> FALSE, ret |-> "-", loaded |-> FALSE, wrote |-> FALSE,
           criou |-> FALSE, ret_existe |-> FALSE]

NoPendente == [ativo |-> FALSE, form |-> FormAna, sigla |-> <<>>, nreq |-> 0,
               nova |-> FALSE, recarregado |-> FALSE]

\* iniciar_form, up to the creation of the entries
Init ==
    /\ rev \in Revisions
    /\ \E amb \in Ambientes :
          /\ amb.config.gravavel \/ rev = "formulario"
          /\ arquivos = [p \in Planilhas |->
                           IF p = nome_planilha(ENV_SIGLA) THEN amb.planilha ELSE NoFile]
          /\ pasta = amb.pasta
          /\ configFile = amb.config
    /\ SIGLA = carregar_config(rev, configFile).sigla
    /\ ANO_PROTOCOLO = carregar_config(rev, configFile).ano
    /\ valid = carregar_config(rev, configFile).valid
    /\ df = carregar_planilha(arquivos, nome_planilha(SIGLA))
    /\ var_sigla = SIGLA
    /\ var_ano = ANO_PROTOCOLO
    /\ last = NoLast
    /\ pendente = NoPendente
    /\ passos = 0

(***************************************************************************)
(* submeter.                                                               *)
(***************************************************************************)
only_digits(s) == SelectSeq(s, IsDigit)
prefixo(s, n) == SubSeq(s, 1, IF Len(s) < n THEN Len(s) ELSE n)

\* What the entry variables hold: formulario.py filters CPF, ID, Código da
\* oferta (digits, cut to the configured length) and N chamado (digits) as
\* they are typed; mci_form2pdf.py keeps what was typed.
vars_map(r, v, form) ==
    IF r = "formulario"
    THEN [l \in Labels |->
            CASE l = "CPF" -> prefixo(only_digits(form[l]), v.cpf_len)
              [] l = "ID" -> prefixo(only_digits(form[l]), v.id_len)
              [] l = "Código da oferta" -> prefixo(only_digits(form[l]), v.oferta_len)
              [] l = "N chamado" -> only_digits(form[l])
              [] OTHER -> form[l]]
    ELSE form

\* dados: every entry, stripped
dados_de(r, v, form) ==
    LET vm == vars_map(r, v, form)
    IN  [l \in Labels |-> strip(vm[l])]

\* A variant of falhas without the checks of the lengths
falhas_sem_digitos(r, v, dados) == {l \in Required : dados[l] = <<>>}

\* falhas: the required labels left empty and, in formulario.py, the fields
\* of the wrong length
falhas(r, v, dados) ==
    {l \in Required : dados[l] = <<>>} \cup
    (IF r = "formulario"
     THEN (IF Len(sanitize_num(dados["CPF"])) # v.cpf_len THEN {"CPF (dígitos)"} ELSE {})
          \cup (IF Len(sanitize_num(dados["ID"])) # v.id_len THEN {"ID (dígitos)"} ELSE {})
          \cup (IF Len(sanitize_num(dados["Código da oferta"])) # v.oferta_len
                THEN {"Código da oferta (dígitos)"} ELSE {})
     ELSE {})

\* nreq of the new-record branch
proximo_nreq(r, dl, cf, dir, sigla, ano) ==
    IF r = "formulario"
    THEN proximo_nreq_formulario(dl, carregar_config(r, cf).last_req)
    ELSE proximo_nreq_mci(dl, dir, sigla, ano)

\* sigla_atual, ano_atual, plan and df_local of submeter
sigla_atual == sanitize_sigla(var_sigla)
ano_atual == IF strip(var_ano) # <<>> THEN strip(var_ano) ELSE ANO_PROTOCOLO
plan_atual == nome_planilha(sigla_atual)
df_local_atual == IF plan_atual # nome_planilha(SIGLA)
                  THEN carregar_planilha(arquivos, plan_atual)
                  ELSE df

\* A variant of the new-record branch that keeps the new row in memory when
\* salvar_planilha raises
novo_registro_guarda_linha(plan, df_local, dados, nreq, sigla, ano, amb) ==
    LET novo_df == concat_linha(df_local, linha_de(dados, nreq))
        g == gerar_documento(rev, pasta, dados, nreq, sigla, ano, amb.modeloOK, amb.conv)
    IN  IF ~amb.salvaOK
        THEN [caminho |-> "erro_salvar",
              df |-> IF plan = nome_planilha(SIGLA) THEN novo_df ELSE df,
              arquivos |-> arquivos, config |-> configFile, chamou |-> FALSE, g |-> g]
        ELSE [caminho |-> IF g.raised THEN "erro_gerar" ELSE "novo",
              df |-> IF ~g.raised /\ plan = nome_planilha(SIGLA) THEN novo_df ELSE df,
              arquivos |-> [arquivos EXCEPT ![plan] = salvar_planilha(novo_df)],
              config |-> IF rev = "formulario"
                         THEN salvar_config_formulario(configFile, sigla, ano, valid,
                                                       TRUE, nreq)
                         ELSE configFile,
              chamou |-> TRUE, g |-> g]

\* The new-record branch of submeter, from pd.concat on: what it leaves in
\* memory and on disk, and the call of gerar_documento it made, if any.
\* A failed salvar_planilha leaves the file as it was.
novo_registro(plan, df_local, dados, nreq, sigla, ano, amb) ==
    LET novo_df == concat_linha(df_local, linha_de(dados, nreq))
        g == gerar_documento(rev, pasta, dados, nreq, sigla, ano, amb.modeloOK, amb.conv)
    IN  IF ~amb.salvaOK
        THEN [caminho |-> "erro_salvar", df |-> df, arquivos |-> arquivos,
              config |-> configFile, chamou |-> FALSE, g |-> g]
        ELSE [caminho |-> IF g.raised THEN "erro_gerar" ELSE "novo",
              df |-> IF ~g.raised /\ plan = nome_planilha(SIGLA) THEN novo_df ELSE df,
              arquivos |-> [arquivos EXCEPT ![plan] = salvar_planilha(novo_df)],
              config |-> IF rev = "formulario"
                         THEN salvar_config_formulario(configFile, sigla, ano, valid,
                                                       TRUE, nreq)
                         ELSE configFile,
              chamou |-> TRUE, g |-> g]

\* history of a call of gerar_documento: what was on disk before and after
\* it, what it returned, and whether the path returned names a file of the
\* directory as the call left it
hist_gerar(l, g, dir, base) ==
    [l EXCEPT !.chamou = TRUE,
              !.docx_antes = (base \o EXT_DOCX) \in dir.nomes,
              !.pdf_antes = (base \o EXT_PDF) \in dir.nomes,
              !.pdf_depois = (base \o EXT_PDF) \in g.pasta.nomes,
              !.ret = IF g.raised THEN "-"
                      ELSE IF g.ret = base \o EXT_PDF THEN "pdf" ELSE "docx",
              !.loaded = g.loaded, !.wrote = (g.wrote # {}),
              !.criou = (g.pasta.nomes # dir.nomes),
              !.ret_existe = (~g.raised /\ g.ret \in g.pasta.nomes)]

Submeter(form) ==
    LET sigla == sigla_atual
        ano == ano_atual
        plan == plan_atual
        df_local == df_local_atual
        dados == dados_de(rev, valid, form)
        fl == falhas(rev, valid, dados)
        nreq_existente == existe_registro(df_local, dados)
        nreq == proximo_nreq(rev, df_local, configFile, pasta, sigla, ano)
        n == IF nreq_existente.kind = "some" THEN nreq_existente.n ELSE nreq
        base == base_nome(dados, n, sigla, ano)
        cas == casadas(df_local, dados)
        rep == /\ pendente.ativo /\ pendente.recarregado /\ pendente.nova
               /\ pendente.form = form /\ pendente.sigla = sigla
        h == [NoLast EXCEPT !.op = "submeter",
                            !.invalida = EntradaInvalida(rev, valid, form),
                            !.casou = (cas # {}),
                            !.ilegivel =
                               (/\ cas # {}
                                /\ ~NumeroLegivel(df_local.rows[Primeira(cas)]["N req."])),
                            !.outra_legivel =
                               (\E i \in cas : NumeroLegivel(df_local.rows[i]["N req."])),
                            !.nreq_casada = (\E i \in cas : df_local.rows[i]["N req."] = Num(n)),
                            !.nreq = n,
                            !.inicial = (plan = nome_planilha(SIGLA)),
                            !.repete = rep,
                            !.nreq_pendente = IF rep THEN pendente.nreq ELSE 0]
        pend == [ativo |-> TRUE, form |-> form, sigla |-> sigla, nreq |-> nreq,
                 nova |-> (cas = {}), recarregado |-> FALSE]
    IN  /\ \/ \* falhas is not empty: the warning, and return
              /\ fl # {}
              /\ last' = [h EXCEPT !.caminho = "invalido", !.nreq = 0]
              /\ pendente' = NoPendente
              /\ UNCHANGED <<df, arquivos, configFile, pasta>>
           \/ \* the record is in the ledger: the document is generated again
              /\ fl = {}
              /\ nreq_existente.kind = "some"
              /\ \E amb \in RenderEnvs[rev] :
                    LET g == gerar_documento(rev, pasta, dados, n, sigla, ano,
                                             amb.modeloOK, amb.conv)
                    IN  /\ pasta' = g.pasta
                        /\ last' = hist_gerar(
                              [h EXCEPT !.caminho = IF g.raised THEN "ja_cadastrado_erro"
                                                    ELSE "ja_cadastrado"],
                              g, pasta, base)
              /\ pendente' = NoPendente
              /\ UNCHANGED <<df, arquivos, configFile>>
           \/ \* new record: salvar_planilha, salvar_config (formulario.py),
              \* gerar_documento; df is replaced only when the document came out.
              \* (The process killed after salvar_planilha leaves the disk as a
              \* gerar_documento that raises does.)
              /\ fl = {}
              /\ nreq_existente.kind = "none"
              /\ \E amb \in SubmitEnvs[rev] :
                    LET nr == novo_registro(plan, df_local, dados, nreq, sigla, ano, amb)
                        hn == [h EXCEPT !.caminho = nr.caminho, !.salvou = amb.salvaOK]
                    IN  /\ df' = nr.df
                        /\ arquivos' = nr.arquivos
                        /\ configFile' = nr.config
                        /\ pasta' = IF nr.chamou THEN nr.g.pasta ELSE pasta
                        /\ pendente' = IF nr.caminho = "erro_gerar" THEN pend ELSE NoPendente
                        /\ last' = IF nr.chamou THEN hist_gerar(hn, nr.g, pasta, base)
                                   ELSE hn
        /\ UNCHANGED <<rev, SIGLA, ANO_PROTOCOLO, valid, var_sigla, var_ano>>

(***************************************************************************)
(* The SIGLA and year entries, "Salvar como padrão", the start of the      *)
(* program.                                                                *)
(***************************************************************************)
\* The user types into the SIGLA and the year entries
Editar(e) ==
    /\ var_sigla' = e.sigla
    /\ var_ano' = e.ano
    /\ <<var_sigla', var_ano'>> # <<var_sigla, var_ano>>
    /\ last' = [NoLast EXCEPT !.op = "editar"]
    /\ UNCHANGED <<rev, SIGLA, ANO_PROTOCOLO, valid, df, arquivos, configFile, pasta,
                   pendente>>

\* acao_salvar_cfg
AcaoSalvarCfg ==
    LET s == sigla_atual
        a == ano_atual
    IN  /\ configFile' = IF rev = "formulario"
                         THEN salvar_config_formulario(configFile, s, a, valid, FALSE, 0)
                         ELSE salvar_config_mci(configFile, s, a)
        /\ last' = [NoLast EXCEPT !.op = "salvar_cfg"]
        /\ UNCHANGED <<rev, SIGLA, ANO_PROTOCOLO, valid, df, var_sigla, var_ano,
                       arquivos, pasta, pendente>>

\* The program is closed, or has stopped, and is started again: iniciar_form
\* reads the configuration and the ledger from disk.
Iniciar ==
    LET cfg == carregar_config(rev, configFile)
    IN  /\ SIGLA' = cfg.sigla
        /\ ANO_PROTOCOLO' = cfg.ano
        /\ valid' = cfg.valid
        /\ df' = carregar_planilha(arquivos, nome_planilha(cfg.sigla))
        /\ var_sigla' = cfg.sigla
        /\ var_ano' = cfg.ano
        /\ last' = [NoLast EXCEPT !.op = "iniciar"]
        /\ pendente' = IF pendente.ativo THEN [pendente EXCEPT !.recarregado = TRUE]
                       ELSE pendente
        /\ UNCHANGED <<rev, arquivos, configFile, pasta>>

\* The clicks on the two buttons are counted; typing into the entries and
\* restarting the program are not.
Next ==
    \/ /\ passos < MaxPassos
       /\ passos' = passos + 1
       /\ \/ \E form \in Forms[rev] : Submeter(form)
          \/ AcaoSalvarCfg
    \/ /\ UNCHANGED passos
       /\ \/ \E e \in EntradasCfg : Editar(e)
          \/ Iniciar

Spec == Init /\ [][Next]_vars

(***************************************************************************)
(* proximo_nreq of mci_form2pdf.py on its own: the ledger in memory and    *)
(* the output directory are drawn from the sets below and the function is  *)
(* applied once.                                                           *)
(***************************************************************************)
\* The ledgers of this specification have at most this many rows
MaxLinhasNreq == 3

\* What the 'N req.' cell of a row holds: a number, nothing, a text
CelulasNreq == {Num(2), Num(3), Num(7), NaN, Str(<<"x">>)}

\* The ledgers: every sequence of such rows, and a ledger that has rows and no
\* 'N req.' column
SemColunaNreq ==
    [columns |-> ColunasSet \ {"N req."},
     rows |-> << [c \in ColunasSet \ {"N req."} |-> RowAna99[c]] >>]
TabelasNreq ==
    {[columns |-> ColunasSet,
      rows |-> [i \in DOMAIN cs |-> [RowAna99 EXCEPT !["N req."] = cs[i]]]] :
        cs \in UNION {[1..k -> CelulasNreq] : k \in 0..MaxLinhasNreq}}
    \cup {SemColunaNreq}

\* Names in the directory: of the sigla and year, in lower case, with a word
\* character after the year, of three digits, of another sigla
NOME_09_MINUSCULO == <<"0", "9", "m", "c", "i", "2", "0", "2", "5", " ", "x">> \o EXT_DOCX
NOME_12_SUBLINHADO == <<"1", "2", "M", "C", "I", "2", "0", "2", "5", "_", "a">> \o EXT_PDF
NOME_11_IOT == <<"1", "1", "I", "O", "T", "2", "0", "2", "5", " ">> \o T_ZED \o EXT_PDF
PastasNreq ==
    {NoDir} \cup
    {[isdir |-> TRUE, nomes |-> ns] :
        ns \in {{}, {NOME_ZED_07}, {NOME_ZED_07, NOME_09_MINUSCULO}, {NOME_12_SUBLINHADO},
                {NOME_ZED_100, NOME_11_IOT}, {NOME_ZED_07, NOME_12_SUBLINHADO}}}

InitNreq ==
    /\ rev = "mci"
    /\ configFile = NoConfigFile
    /\ SIGLA = carregar_config(rev, configFile).sigla
    /\ ANO_PROTOCOLO = carregar_config(rev, configFile).ano
    /\ valid = carregar_config(rev, configFile).valid
    /\ arquivos = [p \in Planilhas |-> NoFile]
    /\ df \in TabelasNreq
    /\ pasta \in PastasNreq
    /\ var_sigla = SIGLA
    /\ var_ano = ANO_PROTOCOLO
    /\ last = NoLast
    /\ pendente = NoPendente
    /\ passos = 0

\* nreq = proximo_nreq(df_local, sigla_atual, ano_atual)
CalcularNreq ==
    /\ last.op = "init"
    /\ last' = [NoLast EXCEPT !.op = "proximo_nreq",
                              !.nreq = proximo_nreq_mci(df, pasta, sigla_atual, ano_atual)]
    /\ UNCHANGED <<rev, SIGLA, ANO_PROTOCOLO, valid, df, var_sigla, var_ano, arquivos,
                   configFile, pasta, pendente, passos>>

NextNreq == CalcularNreq

SpecNreq == InitNreq /\ [][NextNreq]_vars

(***************************************************************************)
(* The rendering of the sequence number on its own: the program is started *)
(* beside a ledger whose one row holds a number drawn from 1..MaxProtocolo *)
(* and one record is submitted, the one of that row or a new one.          *)
(***************************************************************************)
\* The greatest number the ledger of this specification starts with
MaxProtocolo == 120

InitProtocolo ==
    /\ rev \in Revisions
    /\ configFile = NoConfigFile
    /\ SIGLA = carregar_config(rev, configFile).sigla
    /\ ANO_PROTOCOLO = carregar_config(rev, configFile).ano
    /\ valid = carregar_config(rev, configFile).valid
    /\ \E n \in 1..MaxProtocolo :
          arquivos = [p \in Planilhas |->
                        IF p = nome_planilha(ENV_SIGLA)
                        THEN FileOf(<<[RowAna99 EXCEPT !["N req."] = Num(n)]>>)
                        ELSE NoFile]
    /\ df = carregar_planilha(arquivos, nome_planilha(SIGLA))
    /\ pasta = NoDir
    /\ var_sigla = SIGLA
    /\ var_ano = ANO_PROTOCOLO
    /\ last = NoLast
    /\ pendente = NoPendente
    /\ passos = 0

\* One click on "Salvar na planilha e gerar PDF"
SubmeterUmaVez ==
    /\ passos = 0
    /\ passos' = 1
    /\ \E form \in Forms[rev] : Submeter(form)

NextProtocolo == SubmeterUmaVez

SpecProtocolo == InitProtocolo /\ [][NextProtocolo]_vars

(***************************************************************************)
(* format_cpf of formulario.py on its own: the configuration file gives    *)
(* the length of the CPF, a text is drawn from the set below and the       *)
(* function is applied once.                                               *)
(***************************************************************************)
\* The longest run of digits typed
MaxDigitosCpf == 13

\* The lengths a configuration file gives the CPF ("valid": {"cpf_len": ...})
CpfLens == {8, 11, 12}

\* k digits, 1 2 3 ... 9 0 1 2 ..., bare and with the dots and the dash typed
DigitosCpf(k) == [i \in 1..k |-> DigitSeq[(i % 10) + 1]]
PontuadoCpf(k) ==
    LET d == DigitosCpf(k)
    IN  IF k <= 3 THEN d
        ELSE IF k <= 6 THEN SubSeq(d, 1, 3) \o <<".">> \o SubSeq(d, 4, k)
        ELSE IF k <= 9 THEN SubSeq(d, 1, 3) \o <<".">> \o SubSeq(d, 4, 6) \o <<".">> \o
                            SubSeq(d, 7, k)
        ELSE SubSeq(d, 1, 3) \o <<".">> \o SubSeq(d, 4, 6) \o <<".">> \o
             SubSeq(d, 7, 9) \o <<"-">> \o SubSeq(d, 10, k)
EntradasCpf == {DigitosCpf(k) : k \in 0..MaxDigitosCpf} \cup
               {PontuadoCpf(k) : k \in 0..MaxDigitosCpf}

ConfigCpf(n) ==
    [isfile |-> TRUE,
     data |-> ("sigla" :> ENV_SIGLA) @@ ("ano" :> DEFAULT_ANO) @@
              ("valid" :> [DEFAULTS_VALID EXCEPT !.cpf_len = n]),
     gravavel |-> TRUE]

InitCpf ==
    /\ rev = "formulario"
    /\ \E n \in CpfLens : configFile = ConfigCpf(n)
    /\ SIGLA = carregar_config(rev, configFile).sigla
    /\ ANO_PROTOCOLO = carregar_config(rev, configFile).ano
    /\ valid = carregar_config(rev, configFile).valid
    /\ arquivos = [p \in Planilhas |-> NoFile]
    /\ df = carregar_planilha(arquivos, nome_planilha(SIGLA))
    /\ pasta = NoDir
    /\ var_sigla = SIGLA
    /\ var_ano = ANO_PROTOCOLO
    /\ \E t \in EntradasCpf : last = [op |-> "entrada", entrada |-> t, saida |-> <<>>]
    /\ pendente = NoPendente
    /\ passos = 0

\* mapa["cpf"] = format_cpf(row.get("CPF"))
FormatarCpf ==
    /\ last.op = "entrada"
    /\ last' = [last EXCEPT !.op = "format_cpf", !.saida = format_cpf(last.entrada)]
    /\ UNCHANGED <<rev, SIGLA, ANO_PROTOCOLO, valid, df, var_sigla, var_ano, arquivos,
                   configFile, pasta, pendente, passos>>

NextCpf == FormatarCpf

SpecCpf == InitCpf /\ [][NextCpf]_vars

(***************************************************************************)
(* The properties.                                                         *)
(***************************************************************************)
\* the numbers in the 'N req.' column of a table or of a ledger file
NumerosDe(t) ==
    IF "N req." \in t.columns
    THEN {t.rows[i]["N req."].n : i \in {j \in DOMAIN t.rows : t.rows[j]["N req."].k = "num"}}
    ELSE {}
Maior(S) == IF S = {} THEN 0 ELSE CHOOSE m \in S : \A x \in S : x <= m

\* the number of leading digits of a name
DigitosIniciais(nome) ==
    Maior({k \in DOMAIN nome : \A i \in 1..k : IsDigit(nome[i])})
\* nome is an output file of the sigla and year: the protocol (two digits or
\* more), the sigla, the year, a blank and the rest
ArquivoDe(nome, sigla, ano) ==
    LET d == DigitosIniciais(nome)
        resto == sigla \o ano \o <<" ">>
    IN  /\ d >= 2
        /\ Len(nome) >= d + Len(resto)
        /\ SubSeq(nome, d + 1, d + Len(resto)) = resto
NumeroDoArquivo(nome) == int_of(SubSeq(nome, 1, DigitosIniciais(nome)))

\* the number a submit of a new record would be given now
Proposta == proximo_nreq(rev, df_local_atual, configFile, pasta, sigla_atual, ano_atual)

\* C1: a submit whose record matches a ledger row on the key appends no row,
\* so that no ledger file ever holds two rows with the same key.
C1_SemChaveRepetida ==
    \A p \in Planilhas :
       \A i, j \in DOMAIN arquivos[p].rows :
          chave_linha(arquivos[p].rows[i]) = chave_linha(arquivos[p].rows[j]) => i = j

\* C2: in every reachable state the number proposed for a new row is greater
\* than every number in the ledger and, in mci_form2pdf.py, than the number of
\* every output file of the same sigla and year, numbers of 100 or more
\* included.
C2_PropostaMaior ==
    /\ \A n \in NumerosDe(df_local_atual) : n < Proposta
    /\ rev = "mci" =>
          \A nome \in pasta.nomes :
             ArquivoDe(nome, sigla_atual, ano_atual) => NumeroDoArquivo(nome) < Proposta

\* C3: proximo_nreq of mci_form2pdf.py is max(max_ledger, max_outputs) + 1,
\* max_ledger the greatest number of the 'N req.' column (0 without one) and
\* max_outputs the greatest two-digit prefix of the names that start with two
\* digits, the sigla and the year, whatever the case (0 without one).
ComecaCom(nome, sigla, ano) ==
    /\ Len(nome) >= 2 + Len(sigla) + Len(ano)
    /\ IsDigit(nome[1]) /\ IsDigit(nome[2])
    /\ casefold(SubSeq(nome, 3, 2 + Len(sigla) + Len(ano))) = casefold(sigla \o ano)
\* the year ends the name or is followed by a character that is not of a word
FimDePalavra(nome, sigla, ano) ==
    LET k == 2 + Len(sigla) + Len(ano)
    IN  Len(nome) = k \/ ~IsWordChar(nome[k + 1])
MaxLedger(t) == IF t.rows = <<>> THEN 0 ELSE Maior(NumerosDe(t))
MaxOutputs(dir, sigla, ano, fronteira) ==
    IF ~dir.isdir THEN 0
    ELSE Maior({int_of(SubSeq(nome, 1, 2)) :
                  nome \in {x \in dir.nomes :
                              /\ ComecaCom(x, sigla, ano)
                              /\ fronteira => FimDePalavra(x, sigla, ano)}})
C3_Original ==
    last.op = "proximo_nreq" =>
       last.nreq = Maior({MaxLedger(df), MaxOutputs(pasta, SIGLA, ANO_PROTOCOLO, FALSE)}) + 1
\* C3, amended: the names counted are those where the year ends a word.
C3_Amended ==
    last.op = "proximo_nreq" =>
       /\ last.nreq = Maior({MaxLedger(df), MaxOutputs(pasta, SIGLA, ANO_PROTOCOLO, TRUE)}) + 1
       /\ (df.rows = <<>> /\ MaxOutputs(pasta, SIGLA, ANO_PROTOCOLO, TRUE) = 0) => last.nreq = 1
\* the ledger {3, 7, 2} beside a name that is not counted gives 8
C3_Witness ==
    /\ last.op = "proximo_nreq"
    /\ "N req." \in df.columns
    /\ [i \in DOMAIN df.rows |-> df.rows[i]["N req."]] = <<Num(3), Num(7), Num(2)>>
    /\ pasta.isdir /\ pasta.nomes = {NOME_12_SUBLINHADO}
    /\ last.nreq = 8

\* C4: the number stored in a ledger file for a row never changes, and a
\* number once given to a row is never given to another.
C4_NumeroFixo ==
    [][\A p \in Planilhas :
          \A i \in DOMAIN arquivos[p].rows, j \in DOMAIN arquivos'[p].rows :
             LET a == arquivos[p].rows[i]
                 b == arquivos'[p].rows[j]
             IN  (a["N req."].k = "num" /\ b["N req."].k = "num") =>
                    /\ chave_linha(a) = chave_linha(b) => a["N req."] = b["N req."]
                    /\ a["N req."] = b["N req."] => chave_linha(a) = chave_linha(b)]_vars

\* C5: a new record whose row was saved and whose document was not rendered
\* is, once the program is started again and the record submitted again,
\* found in the ledger: nothing is saved and the document is generated under
\* the number stored the first time.
C5_Recupera ==
    last.repete =>
       /\ last.caminho \in {"ja_cadastrado", "ja_cadastrado_erro"}
       /\ ~last.salvou
       /\ last.chamou
       /\ last.nreq = last.nreq_pendente
C5_Witness ==
    /\ last.repete /\ last.caminho = "ja_cadastrado" /\ last.wrote
    /\ last.nreq = last.nreq_pendente /\ last.nreq >= 1

\* C6: a submit that fails the validation writes nothing: the ledger files, the
\* ledger in memory, the configuration file and the output directory are as
\* they were.
C6_InvalidoNaoEscreve ==
    [][(last'.op = "submeter" /\ last'.invalida) =>
          /\ last'.caminho = "invalido"
          /\ ~last'.chamou
          /\ UNCHANGED <<df, arquivos, configFile, pasta>>]_vars
C6_Witness == last.op = "submeter" /\ last.invalida /\ last.caminho = "invalido"

\* C7: when the ledger cannot be written, the ledger in memory is as before
\* the submit, no document is rendered, the configuration file (last_req) is
\* not written and the file is not written by a retry: the state the next
\* submit starts from is the one the failed submit started from.
C7_ErroSalvar ==
    [][last'.caminho = "erro_salvar" =>
          /\ ~last'.chamou /\ ~last'.salvou
          /\ UNCHANGED <<df, arquivos, configFile, pasta>>]_vars
C7_Witness == last.caminho = "erro_salvar" /\ ~last.casou /\ last.nreq >= 1

\* C8: a second call of gerar_documento for the same record, number, sigla and
\* year creates no file, loads no template, rewrites nothing and returns the
\* path of the PDF.
C8_Original ==
    (last.chamou /\ (last.docx_antes \/ last.pdf_antes)) =>
       /\ last.ret = "pdf"
       /\ ~last.criou /\ ~last.loaded /\ ~last.wrote
\* C8, amended: so it is when the first call left the PDF; when it left the
\* .docx alone, the second call loads no template and does not rewrite the
\* .docx, and the one file it can create is the PDF.
C8_Amended ==
    /\ (last.chamou /\ last.pdf_antes) =>
          /\ last.ret = "pdf" /\ last.pdf_depois
          /\ ~last.criou /\ ~last.loaded /\ ~last.wrote
    /\ (last.chamou /\ last.docx_antes /\ ~last.pdf_antes) =>
          /\ ~last.loaded /\ ~last.wrote
          /\ last.criou => last.pdf_depois
C8_Witness ==
    /\ last.chamou /\ last.pdf_antes /\ last.docx_antes
    /\ last.caminho = "ja_cadastrado" /\ last.ret = "pdf"

\* C9: the .docx being there and the PDF not, gerar_documento loads no
\* template and does not rewrite the .docx; it returns the path of the PDF
\* when the conversion gave one and the path of the .docx when it did not.
C9_DocxExistente ==
    (last.chamou /\ last.docx_antes /\ ~last.pdf_antes) =>
       /\ ~last.loaded /\ ~last.wrote
       /\ last.ret = IF last.pdf_depois THEN "pdf" ELSE "docx"

\* C10: a conversion that fails is no error: gerar_documento returns the path
\* of the .docx it has just saved and the submit ends on its success path.
C10_ConversaoFalha ==
    (last.chamou /\ last.wrote /\ ~last.pdf_depois) =>
       /\ last.ret = "docx"
       /\ last.caminho \in {"novo", "ja_cadastrado"}

\* C11: saving the ledger in memory and loading it again gives a table with
\* exactly the standard columns and the same rows, every cell as it was (a
\* column the table had not comes back empty); loading a path that is no file
\* gives the empty table with the standard columns.
C11_IdaEVolta ==
    LET caminho == nome_planilha(SIGLA)
        gravado == [p \in Planilhas |-> salvar_planilha(df)]
        lido == carregar_planilha(gravado, caminho)
    IN  /\ lido.columns = ColunasSet
        /\ DOMAIN lido.rows = DOMAIN df.rows
        /\ \A i \in DOMAIN df.rows :
              \A c \in ColunasSet :
                 lido.rows[i][c] = IF c \in df.columns THEN df.rows[i][c] ELSE NaN
        /\ carregar_planilha([p \in Planilhas |-> NoFile], caminho) = EmptyTable

\* C12: existe_registro gives none for an empty ledger and when no row has
\* the key of the candidate (NOME trimmed and case-folded; ID, CPF and Data
\* trimmed); otherwise it gives the number of the first row that has it.
C12_PrimeiraLinha ==
    \A form \in Forms[rev] :
       LET dados == dados_de(rev, valid, form)
           dl == df_local_atual
           cas == casadas(dl, dados)
           r == existe_registro(dl, dados)
       IN  /\ cas = {} => r = None
           /\ cas # {} => /\ r.kind = "some"
                          /\ Num(r.n) = dl.rows[Primeira(cas)]["N req."]

\* C13: after a submit that added a row, the ID, CPF and Código da oferta of
\* that row, which are the values the duplicate check compared, are texts of
\* digits alone.
SoDigitos(c) == c.k = "str" /\ \A i \in DOMAIN c.s : IsDigit(c.s[i])
C13_SoDigitos ==
    (last.op = "submeter" /\ last.caminho = "novo") =>
       LET f == arquivos[plan_atual]
           row == f.rows[Len(f.rows)]
       IN  \A c \in {"ID", "CPF", "Código da oferta"} : SoDigitos(row[c])

\* the number of decimal digits of n >= 1
RECURSIVE NumDigitos(_)
NumDigitos(n) == IF n < 10 THEN 1 ELSE 1 + NumDigitos(n \div 10)
\* the names a call of gerar_documento can leave for a rendered number
NomesDe(texto) ==
    UNION {{texto \o SIGLA \o ANO_PROTOCOLO \o <<" ">> \o strip(form["NOME"]) \o ext :
              ext \in {EXT_DOCX, EXT_PDF}} : form \in Forms[rev]}

\* C14: the sequence number is rendered in decimal, zero-padded to two digits
\* and never cut: two digits for 1..99, every digit of n from 100 on, so that
\* two numbers never give one text; the files written are named
\* <rendered number><sigla><year> <trimmed name> and the extension.
C14_Protocolo ==
    (last.op = "submeter" /\ last.chamou /\ last.wrote) =>
       LET n == last.nreq
           texto == protocolo(n)
       IN  /\ \A i \in DOMAIN texto : IsDigit(texto[i])
           /\ int_of(texto) = n
           /\ n <= 99 => Len(texto) = 2
           /\ n >= 100 => Len(texto) = NumDigitos(n) /\ texto[1] # "0"
           /\ \A m \in 1..(MaxProtocolo + 1) : m # n => protocolo(m) # texto
           /\ pasta.nomes # {}
           /\ pasta.nomes \subseteq NomesDe(texto)
\* number 100 was rendered, and its .docx is "100MCI2025 ana SILVA.docx"
C14_Witness ==
    /\ last.op = "submeter" /\ last.chamou /\ last.wrote /\ last.nreq = 100
    /\ (<<"1", "0", "0", "M", "C", "I", "2", "0", "2", "5", " ",
          "a", "n", "a", " ", "S", "I", "L", "V", "A">> \o EXT_DOCX) \in pasta.nomes

\* the text has a dot or a dash
TemPontuacao(t) == \E i \in DOMAIN t : t[i] \in {".", "-"}

\* C15: format_cpf gives the digits of its argument, cut to the configured
\* length of the CPF, with the punctuation 3-3-3-2 exactly when they are as
\* many as that length, and gives them bare otherwise: "123.456.789-09" comes
\* back as it is, eight digits come back as the same eight digits.
C15_FormatCpf ==
    last.op = "format_cpf" =>
       LET digitos == SelectSeq(last.entrada, IsDigit)
           n == valid.cpf_len
           d == SubSeq(digitos, 1, IF Len(digitos) < n THEN Len(digitos) ELSE n)
       IN  /\ TemPontuacao(last.saida) <=> (Len(d) = n)
           /\ Len(d) # n => last.saida = d
           /\ SelectSeq(last.saida, IsDigit) = d
           /\ (n = 11 /\ last.entrada = T_CPF_PONTOS) => last.saida = T_CPF_PONTOS
           /\ (n = 11 /\ last.entrada = T_CPF_8) => last.saida = T_CPF_8

SementeGravada ==
    IF configFile.isfile /\ "last_req" \in DOMAIN configFile.data
    THEN configFile.data["last_req"] ELSE 0

\* C17: in formulario.py the number proposed is the greatest number of the
\* ledger plus one when the ledger holds a number, whatever the seed, and
\* last_req + 1 when the ledger is empty (1 without a seed); and after a
\* submit that saved a new row the configuration file holds that row's number
\* as last_req.
C17_Semente ==
    rev = "formulario" =>
       /\ NumerosDe(df_local_atual) # {} =>
             Proposta = Maior(NumerosDe(df_local_atual)) + 1
       /\ df_local_atual.rows = <<>> => Proposta = SementeGravada + 1
       /\ (last.op = "submeter" /\ last.salvou) => SementeGravada = last.nreq

\* C18: in formulario.py "Salvar como padrão" leaves the last_req of the
\* configuration file as it was: carregar_config gives the same last_req
\* after the save as before it.
C18_SalvarCfgGuardaSemente ==
    [][(rev = "formulario" /\ last'.op = "salvar_cfg") =>
          /\ SementeGravada' = SementeGravada
          /\ carregar_config(rev, configFile').last_req =
                carregar_config(rev, configFile).last_req]_vars

\* C19: a submit removes no row from a ledger file: every record that has a
\* row in the file before the submit has one after it, a submit that follows
\* a failed rendering included.
C19_LinhaFica ==
    [][\A p \in Planilhas :
          \A i \in DOMAIN arquivos[p].rows :
             \E j \in DOMAIN arquivos'[p].rows :
                chave_linha(arquivos'[p].rows[j]) = chave_linha(arquivos[p].rows[i])]_vars

\* a cell as a file holds it: the empty text is an empty cell
CelulaGravada(c) == IF c = Str(<<>>) THEN NaN ELSE c
LinhasGravadas(t) ==
    [i \in DOMAIN t.rows |-> [c \in t.columns |-> CelulaGravada(t.rows[i][c])]]

\* C20: when a submit under the sigla of the startup has ended, however it
\* ended, the ledger in memory has the rows of the ledger file (no row when
\* there is no file).
C20_MemoriaIgualArquivo ==
    (last.op = "submeter" /\ last.inicial) =>
       LET f == arquivos[nome_planilha(SIGLA)]
       IN  IF f.isfile THEN LinhasGravadas(df) = f.rows ELSE df.rows = <<>>

\* C21: whenever gerar_documento returns without raising, the path it returns
\* names a file that exists at that moment: when the PDF was already there,
\* when the .docx was there and was converted, and when the document was
\* freshly rendered, a converter that returns normally without having
\* produced a PDF included.
C21_CaminhoExiste ==
    (last.op = "submeter" /\ last.chamou /\ last.ret # "-") => last.ret_existe

=============================================================================
